---------------------------- MODULE Spec2Model ----------------------------
(***************************************************************************)
(* CustomIconPackSetting (src/src/settings/ui/customIconPack.ts): the      *)
(* settings panel that creates, fills, refreshes and deletes icon packs,   *)
(* and its drag-and-drop highlight.                                        *)
(*                                                                         *)
(* The component has two parts that share no field:                        *)
(*   - the drag highlight (dragTargetElement, closeTimer and the overlay   *)
(*     node), driven by the dragenter/dragover/dragleave/drop listeners    *)
(*     and by the 100ms timer;                                             *)
(*   - the async click/drop handlers, each suspended at its awaits.        *)
(* A drop event runs both: the unhighlight listener, then the drop         *)
(* handler.  SpecDrag explores the listeners, SpecCreate the 'Add icon     *)
(* pack' handler, SpecBatch the per-pack handlers, SpecHandlers all        *)
(* handlers with failing calls; Spec is their union.                       *)
(***************************************************************************)
EXTENDS Integers, Sequences, FiniteSets, TLC

\* Number of pack rows drawn by display() (one per getAllIconPacks() entry).
NumRows == 2

\* Number of async handler invocations started in one run.
MaxInv == 2

Rows == 1..NumRows

\* JavaScript's undefined, for an element or a timer handle.
None == 0

VARIABLES
  dragTargetElement,  \* this.dragTargetElement: the row that owns the overlay, or None
  overlayParent,      \* parentNode of this.dragOverElement in the DOM, or None
  dragoverClass,      \* the rows whose classList holds 'iconize-dragover'
  closeTimer,         \* this.closeTimer: the handle last returned by setTimeout
  timers,             \* the host's pending timeouts: records [id, el]
  thrown,             \* a removeChild was applied to a node that is not the overlay's parent
  lastEvt,            \* history: the last drag event or timer callback
  prevEvt,            \* history: the one before it
  textValue,          \* this.textComponent's value
  packDirs,           \* icon pack manager: the names doesIconPackExist answers true for
  iconPacks,          \* icon pack manager: per row, the icons registered (iconPack.icons)
  desc,               \* per row, the description set by setDesc
  deletedPacks,       \* icon pack manager: the rows whose backing storage is deleted
  inv                 \* the handler invocations started so far, each with its position

dragVars == <<dragTargetElement, overlayParent, dragoverClass, closeTimer, timers, thrown>>
histVars == <<lastEvt, prevEvt>>
handlerVars == <<textValue, packDirs, iconPacks, desc, deletedPacks, inv>>
vars == <<dragTargetElement, overlayParent, dragoverClass, closeTimer, timers, thrown,
          lastEvt, prevEvt, textValue, packDirs, iconPacks, desc, deletedPacks, inv>>

-----------------------------------------------------------------------------
(* The drag highlight *)

\* setTimeout returns a handle no pending timeout and no stored handle holds;
\* handles are only compared for identity, so the least such value stands for it.
FreshHandle ==
  CHOOSE h \in 1..(Cardinality(timers) + 2) :
    h # closeTimer /\ \A t \in timers : t.id # h

\* clearTimeout(handle): the pending timeouts without the one of that handle.
clearTimeout(handle) == {t \in timers : t.id # handle}

\* Fault: highlight that leaves the pending timeout alone.
highlight_noClear(el) ==
  /\ timers' = timers
  /\ closeTimer' = closeTimer
  /\ thrown' = thrown
  /\ IF dragTargetElement = None
       THEN /\ overlayParent' = el
            /\ dragoverClass' = dragoverClass \cup {el}
            /\ dragTargetElement' = el
       ELSE UNCHANGED <<overlayParent, dragoverClass, dragTargetElement>>

\* Fault: highlight that attaches the overlay whoever owns it.
highlight_noGuard(el) ==
  /\ timers' = clearTimeout(closeTimer)
  /\ closeTimer' = closeTimer
  /\ thrown' = thrown
  /\ overlayParent' = el
  /\ dragoverClass' = dragoverClass \cup {el}
  /\ dragTargetElement' = el

\* highlight(el)
highlight(el) ==
  /\ timers' = clearTimeout(closeTimer)
  /\ closeTimer' = closeTimer
  /\ thrown' = thrown
  /\ IF dragTargetElement = None
       THEN /\ overlayParent' = el                      \* appendChild moves the node
            /\ dragoverClass' = dragoverClass \cup {el}
            /\ dragTargetElement' = el
       ELSE UNCHANGED <<overlayParent, dragoverClass, dragTargetElement>>

\* Fault: unhighlight that starts no timeout.
unhighlight_noTimer(target, el) ==
  LET other == dragTargetElement # None /\ dragTargetElement # target IN
  /\ thrown' = thrown
  /\ overlayParent' = IF other THEN None ELSE overlayParent
  /\ dragoverClass' = IF other THEN dragoverClass \ {dragTargetElement} ELSE dragoverClass
  /\ dragTargetElement' = IF other THEN None ELSE dragTargetElement
  /\ closeTimer' = closeTimer
  /\ timers' = clearTimeout(closeTimer)

\* Fault: unhighlight that starts a timeout without clearing the pending one.
unhighlight_noClear(target, el) ==
  LET other == dragTargetElement # None /\ dragTargetElement # target IN
  IF other /\ overlayParent # dragTargetElement
    THEN /\ thrown' = TRUE
         /\ UNCHANGED <<dragTargetElement, overlayParent, dragoverClass, closeTimer, timers>>
    ELSE /\ thrown' = thrown
         /\ overlayParent' = IF other THEN None ELSE overlayParent
         /\ dragoverClass' = IF other THEN dragoverClass \ {dragTargetElement}
                                      ELSE dragoverClass
         /\ dragTargetElement' = IF other THEN None ELSE dragTargetElement
         /\ closeTimer' = FreshHandle
         /\ timers' = timers \cup {[id |-> FreshHandle, el |-> el]}

\* Fault: unhighlight that leaves alone an overlay another row owns.
unhighlight_noRelease(target, el) ==
  /\ thrown' = thrown
  /\ UNCHANGED <<overlayParent, dragoverClass, dragTargetElement>>
  /\ closeTimer' = FreshHandle
  /\ timers' = clearTimeout(closeTimer) \cup {[id |-> FreshHandle, el |-> el]}

\* unhighlight(target, el).  removeChild throws when the overlay is not a child
\* of the node it is applied to, and the rest of the listener is then skipped.
unhighlight(target, el) ==
  LET other == dragTargetElement # None /\ dragTargetElement # target IN
  IF other /\ overlayParent # dragTargetElement
    THEN /\ thrown' = TRUE
         /\ UNCHANGED <<dragTargetElement, overlayParent, dragoverClass, closeTimer, timers>>
    ELSE /\ thrown' = thrown
         /\ overlayParent' = IF other THEN None ELSE overlayParent
         /\ dragoverClass' = IF other THEN dragoverClass \ {dragTargetElement}
                                      ELSE dragoverClass
         /\ dragTargetElement' = IF other THEN None ELSE dragTargetElement
         /\ closeTimer' = FreshHandle
         /\ timers' = clearTimeout(closeTimer) \cup {[id |-> FreshHandle, el |-> el]}

\* The callback unhighlight hands to setTimeout, run for the timeout t.
closeTimerCallback(t) ==
  /\ timers' = timers \ {t}
  /\ closeTimer' = closeTimer
  /\ IF dragTargetElement # None
       THEN IF overlayParent = t.el
              THEN /\ overlayParent' = None
                   /\ dragoverClass' = dragoverClass \ {t.el}
                   /\ dragTargetElement' = None
                   /\ thrown' = thrown
              ELSE /\ thrown' = TRUE
                   /\ UNCHANGED <<overlayParent, dragoverClass, dragTargetElement>>
       ELSE UNCHANGED <<overlayParent, dragoverClass, dragTargetElement, thrown>>

Evt(op, row, owner, timer) == [op |-> op, row |-> row, owner |-> owner, timer |-> timer]

\* The dragenter and dragover listeners of a row.
DragEnterOrOver(r) ==
  /\ highlight(r)
  /\ lastEvt' = Evt("highlight", r, dragTargetElement, None)
  /\ prevEvt' = lastEvt
  /\ UNCHANGED handlerVars

\* The dragleave listener of a row; event.currentTarget is the row itself.
DragLeave(r) ==
  /\ unhighlight(r, r)
  /\ lastEvt' = Evt("unhighlight", r, dragTargetElement, closeTimer')
  /\ prevEvt' = lastEvt
  /\ UNCHANGED handlerVars

\* The 100ms have passed for a pending timeout.
TimerFire ==
  \E t \in timers :
    /\ closeTimerCallback(t)
    /\ lastEvt' = Evt("fire", t.el, dragTargetElement, t.id)
    /\ prevEvt' = lastEvt
    /\ UNCHANGED handlerVars

-----------------------------------------------------------------------------
(* Strings are sequences of one-character strings. *)

Whitespace == {" ", "\t", "\n"}

\* String.prototype.toLowerCase on the characters the names below use.
LowerChar(c) ==
  CASE c = "M" -> "m"
    [] c = "P" -> "p"
    [] c = "A" -> "a"
    [] OTHER -> c

toLowerCase(s) == [i \in 1..Len(s) |-> LowerChar(s[i])]

\* Fault: whitespace is dropped instead of replaced.
replaceWhitespace_strip(s) ==
  LET Kept(c) == c \notin Whitespace IN SelectSeq(s, Kept)

\* s.replace(/\s/g, '-')
replaceWhitespace(s) == [i \in 1..Len(s) |-> IF s[i] \in Whitespace THEN "-" ELSE s[i]]

\* Fault: replace without the g flag, only the first whitespace becomes '-'.
normalizeIconPackName_firstOnly(value) ==
  LET s == toLowerCase(value)
      ws == {i \in 1..Len(s) : s[i] \in Whitespace}
  IN [i \in 1..Len(s) |-> IF i \in ws /\ (\A j \in ws : i <= j) THEN "-" ELSE s[i]]

\* normalizeIconPackName(value)
normalizeIconPackName(value) == replaceWhitespace(toLowerCase(value))

\* s.split(sep): the segments of s between the occurrences of the character sep.
RECURSIVE split(_, _)
split(s, sep) ==
  IF \A i \in 1..Len(s) : s[i] # sep
    THEN <<s>>
    ELSE LET i == CHOOSE j \in 1..Len(s) :
                    s[j] = sep /\ \A m \in 1..(j - 1) : s[m] # sep
         IN <<SubSeq(s, 1, i - 1)>> \o split(SubSeq(s, i + 1, Len(s)), sep)

\* Fault: the first segment instead of the last.
iconNameOf_first(fileName) == split(fileName, "/")[1]

\* fileName.split('/').pop()
iconNameOf(fileName) == LET parts == split(fileName, "/") IN parts[Len(parts)]

-----------------------------------------------------------------------------
(* The inputs *)

\* What the user types into the text input.
TypedNames ==
  { <<>>,
    <<"M", "y", " ", "P">>,
    <<"m", "y", "-", "p">>,
    <<" ">> }

\* Longest name typed when the names are drawn from NameAlphabet.
MaxNameLen == 3

\* Upper-case and lower-case letters, whitespace and the hyphen.
NameAlphabet == {"M", "P", "y", "a", " ", "\t", "-"}

\* The strings over NameAlphabet of at most MaxNameLen characters.
NameStrings ==
  UNION {[1..n -> NameAlphabet] : n \in 0..MaxNameLen}

MyPack == <<"M", "y", " ", "P", "a", "c", "k">>

SvgType == "image/svg+xml"

FileA == [name |-> <<"a", ".", "s", "v", "g">>, type |-> SvgType]
FileB == [name |-> <<"b", ".", "s", "v", "g">>, type |-> SvgType]
FileC == [name |-> <<"c", ".", "t", "x", "t">>, type |-> "text/plain"]

\* The file lists a drop carries: none accepted, and two accepted around a
\* rejected one.
Batches ==
  { <<FileC>>,
    <<FileA, FileC, FileB>> }

\* The file lists the file picker hands to onchange.
Selections ==
  { <<FileB, FileA>> }

PathA == <<"/", "p", "/", "f", "/", "a", ".", "s", "v", "g">>
PathB == <<"/", "p", "/", "f", "/", "b", ".", "s", "v", "g">>
PathBare == <<"c", ".", "s", "v", "g">>

\* What getFilesInIconPackDirectory may answer.
Listings ==
  { <<PathA, PathB>>,
    <<PathBare>> }

-----------------------------------------------------------------------------
(* The async handlers.  An invocation is suspended at the call its pc names, *)
(* or is done, or failed (the awaited call rejected and nothing caught it).  *)
(* log is the invocation's own trace of calls, notices and UI updates.       *)

\* A log entry: the call or UI update op, which notice or description it is,
\* and its arguments (two strings and a number).
Ev(op, what, name, aux, n) ==
  [op |-> op, what |-> what, name |-> name, aux |-> aux, n |-> n]

Call(fn, name) == Ev(fn, "", name, <<>>, 0)
NoticeEv(what, name, aux, n) == Ev("Notice", what, name, aux, n)
SetDescEv(what, name, n) == Ev("setDesc", what, name, <<>>, n)

Invocation(kind, row, pc, files, i, name, log) ==
  [kind |-> kind, row |-> row, pc |-> pc, files |-> files, i |-> i,
   name |-> name, log |-> log]

Running(k) == k \in 1..Len(inv) /\ inv[k].pc \notin {"done", "failed"}

CanStart == Len(inv) < MaxInv

Start(rec) == inv' = Append(inv, rec)

Continue(k, rec) == inv' = [inv EXCEPT ![k] = rec]

CountDesc(n) == [kind |-> "count", n |-> n, name |-> <<>>]
LoadingDesc == [kind |-> "loading", n |-> 0, name |-> <<>>]
TotalDesc(n, name) == [kind |-> "total", n |-> n, name |-> name]

\* addIconToIconPack(pack, name, content): the icon is pushed to the pack's icons.
addIconToIconPack(row, name, k) ==
  iconPacks' = [iconPacks EXCEPT ![row] = Append(@, [name |-> name, by |-> k])]

\* What the user types.
TypeName(s) ==
  /\ s # textValue
  /\ textValue' = s
  /\ UNCHANGED <<packDirs, iconPacks, desc, deletedPacks, inv>>
  /\ UNCHANGED <<dragVars, histVars>>

(* --- Add icon pack --- *)

\* Fault: no check of the empty name.
IsEmptyName_never(name) == FALSE

\* name.length === 0
IsEmptyName(name) == Len(name) = 0

\* doesIconPackExist(plugin, name), as the icon pack manager answers it.
doesIconPackExist(name) == name \in packDirs

\* Fault: two redraws.
AfterCreate_redrawTwice(name, normalizedName) ==
  << Call("setValue", <<>>),
     Call("refreshDisplay", <<>>),
     Call("refreshDisplay", <<>>),
     NoticeEv("created", name, normalizedName, 0) >>

\* What the click handler does once createCustomIconPackDirectory has completed.
AfterCreate(name, normalizedName) ==
  << Call("setValue", <<>>),
     Call("refreshDisplay", <<>>),
     NoticeEv("created", name, normalizedName, 0) >>

\* The 'Add icon pack' click, up to its first await.
ClickAddIconPack ==
  /\ CanStart
  /\ LET name == textValue
         normalizedName == normalizeIconPackName(name)
     IN IF IsEmptyName(name)
          THEN Start(Invocation("create", None, "done", <<>>, 0, name, <<>>))
          ELSE Start(Invocation("create", None, "doesIconPackExist", <<>>, 0, name,
                                <<Call("doesIconPackExist", normalizedName)>>))
  /\ UNCHANGED <<textValue, packDirs, iconPacks, desc, deletedPacks>>
  /\ UNCHANGED <<dragVars, histVars>>

\* The click handler resumes after doesIconPackExist or createCustomIconPackDirectory.
CreateResume(k) ==
  /\ Running(k)
  /\ inv[k].kind = "create"
  /\ LET c == inv[k]
         name == c.name
         normalizedName == normalizeIconPackName(name)
     IN IF c.pc = "doesIconPackExist"
          THEN /\ IF doesIconPackExist(normalizedName)
                    THEN Continue(k, [c EXCEPT
                           !.pc = "done",
                           !.log = c.log \o <<NoticeEv("exists", <<>>, <<>>, 0)>>])
                    ELSE Continue(k, [c EXCEPT
                           !.pc = "createCustomIconPackDirectory",
                           !.log = c.log \o
                             <<Call("createCustomIconPackDirectory", normalizedName)>>])
               /\ UNCHANGED <<textValue, packDirs>>
          ELSE /\ packDirs' = packDirs \cup {normalizedName}  \* the directory now exists
               /\ textValue' = <<>>
               /\ Continue(k, [c EXCEPT
                    !.pc = "done",
                    !.log = c.log \o AfterCreate(name, normalizedName)])
  /\ UNCHANGED <<iconPacks, desc, deletedPacks>>
  /\ UNCHANGED <<dragVars, histVars>>

(* --- Add icons with the file picker --- *)

\* The end of the onchange loop.
PickFinish(c) ==
  [c EXCEPT !.pc = "done",
            !.log = c.log \o << SetDescEv("count", <<>>, Len(c.files)),
                                NoticeEv("added", <<>>, <<>>, Len(c.files)) >>]

\* Fault: onchange that starts the read of every file before awaiting any.
FileSelectorChange_allAtOnce(r, files) ==
  /\ CanStart
  /\ Len(files) > 0
  /\ Start(Invocation("pick", r, "readFileSync", files, 1, <<>>,
                      [i \in 1..Len(files) |-> Call("readFileSync", files[i].name)]))
  /\ UNCHANGED <<textValue, packDirs, iconPacks, desc, deletedPacks>>
  /\ UNCHANGED <<dragVars, histVars>>

\* fileSelector.onchange, up to its first await.
FileSelectorChange(r, files) ==
  /\ CanStart
  /\ Len(files) > 0
  /\ Start(Invocation("pick", r, "readFileSync", files, 1, <<>>,
                      <<Call("readFileSync", files[1].name)>>))
  /\ UNCHANGED <<textValue, packDirs, iconPacks, desc, deletedPacks>>
  /\ UNCHANGED <<dragVars, histVars>>

\* Fault: onchange that registers the icon before it persists the file.
PickResume_registerFirst(k) ==
  /\ Running(k)
  /\ inv[k].kind = "pick"
  /\ LET c == inv[k]
         file == c.files[c.i]
     IN IF c.pc = "readFileSync"
          THEN /\ addIconToIconPack(c.row, file.name, k)
               /\ Continue(k, [c EXCEPT !.pc = "createFile",
                                        !.log = c.log \o
                                          << Call("addIconToIconPack", file.name),
                                             Call("createFile", file.name) >>])
               /\ desc' = desc
          ELSE /\ iconPacks' = iconPacks
               /\ IF c.i < Len(c.files)
                    THEN /\ Continue(k, [c EXCEPT
                              !.pc = "readFileSync",
                              !.i = c.i + 1,
                              !.log = c.log \o
                                <<Call("readFileSync", c.files[c.i + 1].name)>>])
                         /\ desc' = desc
                    ELSE /\ Continue(k, PickFinish(c))
                         /\ desc' = [desc EXCEPT ![c.row] = CountDesc(Len(c.files))]
  /\ UNCHANGED <<textValue, packDirs, deletedPacks>>
  /\ UNCHANGED <<dragVars, histVars>>

\* onchange resumes after readFileSync or createFile.
PickResume(k) ==
  /\ Running(k)
  /\ inv[k].kind = "pick"
  /\ LET c == inv[k]
         file == c.files[c.i]
     IN IF c.pc = "readFileSync"
          THEN /\ Continue(k, [c EXCEPT !.pc = "createFile",
                                        !.log = c.log \o <<Call("createFile", file.name)>>])
               /\ UNCHANGED <<iconPacks, desc>>
          ELSE LET added == [c EXCEPT !.log = c.log \o
                                        <<Call("addIconToIconPack", file.name)>>]
               IN /\ addIconToIconPack(c.row, file.name, k)
                  /\ IF c.i < Len(c.files)
                       THEN /\ Continue(k, [added EXCEPT
                                 !.pc = "readFileSync",
                                 !.i = c.i + 1,
                                 !.log = added.log \o
                                   <<Call("readFileSync", c.files[c.i + 1].name)>>])
                            /\ desc' = desc
                       ELSE /\ Continue(k, PickFinish(added))
                            /\ desc' = [desc EXCEPT ![c.row] = CountDesc(Len(c.files))]
  /\ UNCHANGED <<textValue, packDirs, deletedPacks>>
  /\ UNCHANGED <<dragVars, histVars>>

(* --- Refresh --- *)

\* The end of the refresh loop.
RefreshFinish(c) ==
  [c EXCEPT !.pc = "done",
            !.log = c.log \o << NoticeEv("refreshed", <<>>, <<>>, 0),
                                SetDescEv("count", <<>>, Len(c.files)) >>]

\* The refresh click, up to its first await.
ClickRefresh(r) ==
  /\ CanStart
  /\ desc' = [desc EXCEPT ![r] = LoadingDesc]
  /\ Start(Invocation("refresh", r, "getFilesInIconPackDirectory", <<>>, 0, <<>>,
                      << SetDescEv("loading", <<>>, 0),
                         Call("getFilesInIconPackDirectory", <<>>) >>))
  /\ UNCHANGED <<textValue, packDirs, iconPacks, deletedPacks>>
  /\ UNCHANGED <<dragVars, histVars>>

\* The refresh handler resumes after getFilesInIconPackDirectory or adapter.read.
RefreshResume(k) ==
  /\ Running(k)
  /\ inv[k].kind = "refresh"
  /\ LET c == inv[k] IN
     IF c.pc = "getFilesInIconPackDirectory"
       THEN \E files \in Listings :
              LET listed == [c EXCEPT !.files = files] IN
              /\ IF Len(files) = 0
                   THEN /\ Continue(k, RefreshFinish(listed))
                        /\ desc' = [desc EXCEPT ![c.row] = CountDesc(0)]
                   ELSE /\ Continue(k, [listed EXCEPT
                             !.pc = "read",
                             !.i = 1,
                             !.log = c.log \o <<Call("read", files[1])>>])
                        /\ desc' = desc
              /\ iconPacks' = iconPacks
       ELSE LET iconName == iconNameOf(c.files[c.i])
                added == [c EXCEPT !.log = c.log \o
                                     <<Call("addIconToIconPack", iconName)>>]
            IN /\ addIconToIconPack(c.row, iconName, k)
               /\ IF c.i < Len(c.files)
                    THEN /\ Continue(k, [added EXCEPT
                              !.i = c.i + 1,
                              !.log = added.log \o <<Call("read", c.files[c.i + 1])>>])
                         /\ desc' = desc
                    ELSE /\ Continue(k, RefreshFinish(added))
                         /\ desc' = [desc EXCEPT ![c.row] = CountDesc(Len(c.files))]
  /\ UNCHANGED <<textValue, packDirs, deletedPacks>>
  /\ UNCHANGED <<dragVars, histVars>>

(* --- Delete --- *)

\* The trash click, up to its await.
ClickDelete(r) ==
  /\ CanStart
  /\ Start(Invocation("delete", r, "deleteIconPack", <<>>, 0, <<>>,
                      <<Call("deleteIconPack", <<>>)>>))
  /\ UNCHANGED <<textValue, packDirs, iconPacks, desc, deletedPacks>>
  /\ UNCHANGED <<dragVars, histVars>>

\* Fault: no redraw after the deletion.
AfterDelete_noRedraw == <<NoticeEv("deleted", <<>>, <<>>, 0)>>

\* What the trash handler does once deleteIconPack has completed.
AfterDelete == <<Call("refreshDisplay", <<>>), NoticeEv("deleted", <<>>, <<>>, 0)>>

\* The trash handler resumes after deleteIconPack.
DeleteResume(k) ==
  /\ Running(k)
  /\ inv[k].kind = "delete"
  /\ deletedPacks' = deletedPacks \cup {inv[k].row}  \* the backing storage is gone
  /\ Continue(k, [inv[k] EXCEPT !.pc = "done", !.log = inv[k].log \o AfterDelete])
  /\ UNCHANGED <<textValue, packDirs, iconPacks, desc>>
  /\ UNCHANGED <<dragVars, histVars>>

(* --- Drop --- *)

\* Fault: no check of the file's type.
IsSvg_acceptAll(file) == TRUE

\* file.type === 'image/svg+xml': the drop loop accepts the file.
IsSvg(file) == file.type = SvgType

\* The index of the first file at or after i that the drop loop accepts,
\* Len(files) + 1 when there is none.
NextAccepted(files, i) ==
  IF \E j \in i..Len(files) : IsSvg(files[j])
    THEN CHOOSE j \in i..Len(files) :
           IsSvg(files[j]) /\ \A m \in i..(j - 1) : ~IsSvg(files[m])
    ELSE Len(files) + 1

\* The notices for the files the loop skips from i up to, not including, j.
NotSvgNotices(files, i, j) ==
  [m \in 1..(j - i) |-> NoticeEv("notSvg", files[i + m - 1].name, <<>>, 0)]

\* The drop loop from file i on, up to the next await or the end of the handler.
\* successful: whether a file was accepted before.
DropLoop(c, i, successful) ==
  LET j == NextAccepted(c.files, i)
      skipped == c.log \o NotSvgNotices(c.files, i, j)
  IN IF j <= Len(c.files)
       THEN [c EXCEPT !.pc = "readFileSync",
                      !.i = j,
                      !.log = skipped \o <<Call("readFileSync", c.files[j].name)>>]
       ELSE [c EXCEPT !.pc = "done",
                      !.i = j,
                      !.log = IF successful
                                THEN skipped \o <<NoticeEv("success", <<>>, <<>>, 0)>>
                                ELSE skipped]

\* Fault: a drop handler that refuses to start while another handler is suspended.
Drop_whenIdle(r, files) ==
  /\ CanStart
  /\ \A k \in 1..Len(inv) : ~Running(k)
  /\ unhighlight(r, r)
  /\ lastEvt' = Evt("unhighlight", r, dragTargetElement, closeTimer')
  /\ prevEvt' = lastEvt
  /\ Start(DropLoop(Invocation("drop", r, "start", files, 0, <<>>, <<>>), 1, FALSE))
  /\ UNCHANGED <<textValue, packDirs, iconPacks, desc, deletedPacks>>

\* The drop event on a row: the unhighlight listener, then the drop handler
\* up to its first await.
Drop(r, files) ==
  /\ CanStart
  /\ unhighlight(r, r)
  /\ lastEvt' = Evt("unhighlight", r, dragTargetElement, closeTimer')
  /\ prevEvt' = lastEvt
  /\ Start(DropLoop(Invocation("drop", r, "start", files, 0, <<>>, <<>>), 1, FALSE))
  /\ UNCHANGED <<textValue, packDirs, iconPacks, desc, deletedPacks>>

\* The drop handler resumes after readFileSync or createFile.
DropResume(k) ==
  /\ Running(k)
  /\ inv[k].kind = "drop"
  /\ LET c == inv[k]
         file == c.files[c.i]
     IN IF c.pc = "readFileSync"
          THEN /\ Continue(k, [c EXCEPT !.pc = "createFile",
                                        !.log = c.log \o <<Call("createFile", file.name)>>])
               /\ UNCHANGED <<iconPacks, desc>>
          ELSE /\ addIconToIconPack(c.row, file.name, k)
               /\ desc' = [desc EXCEPT ![c.row] =
                             TotalDesc(Len(iconPacks'[c.row]), file.name)]
               /\ Continue(k,
                    DropLoop([c EXCEPT !.log = c.log \o
                                << Call("addIconToIconPack", file.name),
                                   SetDescEv("total", file.name, Len(iconPacks'[c.row])) >>],
                             c.i + 1, TRUE))
  /\ UNCHANGED <<textValue, packDirs, deletedPacks>>
  /\ UNCHANGED <<dragVars, histVars>>

(* --- Failure --- *)

\* Fault: a finally block that puts the icon count back into the description.
Reject_finally(k) ==
  /\ Running(k)
  /\ Continue(k, [inv[k] EXCEPT !.pc = "failed"])
  /\ desc' = [desc EXCEPT ![inv[k].row] = CountDesc(Len(iconPacks[inv[k].row]))]
  /\ UNCHANGED <<textValue, packDirs, iconPacks, deletedPacks>>
  /\ UNCHANGED <<dragVars, histVars>>

\* The call an invocation awaits rejects: nothing catches it, the handler ends there.
Reject(k) ==
  /\ Running(k)
  /\ Continue(k, [inv[k] EXCEPT !.pc = "failed"])
  /\ UNCHANGED <<textValue, packDirs, iconPacks, desc, deletedPacks>>
  /\ UNCHANGED <<dragVars, histVars>>

-----------------------------------------------------------------------------
InitDrag ==
  /\ dragTargetElement = None
  /\ overlayParent = None
  /\ dragoverClass = {}
  /\ closeTimer = None
  /\ timers = {}
  /\ thrown = FALSE
  /\ lastEvt = Evt("none", None, None, None)
  /\ prevEvt = Evt("none", None, None, None)

InitHandlers ==
  /\ textValue = <<>>
  /\ packDirs = {}
  /\ iconPacks = [r \in Rows |-> <<>>]
  /\ desc = [r \in Rows |-> [kind |-> "count", n |-> 0, name |-> <<>>]]
  /\ deletedPacks = {}
  /\ inv = <<>>

Init == InitDrag /\ InitHandlers

\* The component with any name of NameStrings, or 'My Pack', typed in.
InitNormalize ==
  /\ InitDrag
  /\ textValue \in NameStrings \cup {MyPack}
  /\ packDirs = {}
  /\ iconPacks = [r \in Rows |-> <<>>]
  /\ desc = [r \in Rows |-> [kind |-> "count", n |-> 0, name |-> <<>>]]
  /\ deletedPacks = {}
  /\ inv = <<>>

\* The drop handler a Drop starts stays suspended here: its later steps leave
\* the drag state alone, and NextBatch takes them.
NextDrag ==
  \/ \E r \in Rows : DragEnterOrOver(r)
  \/ \E r \in Rows : DragLeave(r)
  \/ \E r \in Rows, files \in Batches : Drop(r, files)
  \/ TimerFire

NextCreate ==
  \/ \E s \in TypedNames : TypeName(s)
  \/ ClickAddIconPack
  \/ \E k \in 1..MaxInv : CreateResume(k)
  \/ \E k \in 1..MaxInv : Reject(k)

NextBatch ==
  \/ \E r \in Rows, files \in Selections : FileSelectorChange(r, files)
  \/ \E k \in 1..MaxInv : PickResume(k)
  \/ \E r \in Rows : ClickRefresh(r)
  \/ \E k \in 1..MaxInv : RefreshResume(k)
  \/ \E r \in Rows : ClickDelete(r)
  \/ \E k \in 1..MaxInv : DeleteResume(k)
  \/ \E r \in Rows, files \in Batches : Drop(r, files)
  \/ \E k \in 1..MaxInv : DropResume(k)
  \/ TimerFire

NextHandlers ==
  \/ NextCreate
  \/ NextBatch

Next == NextDrag \/ NextHandlers

\* The drag listeners and the timer.
SpecDrag == Init /\ [][NextDrag]_vars

\* The 'Add icon pack' handler, any of whose awaited calls may fail.
SpecCreate == Init /\ [][NextCreate]_vars

\* The per-pack handlers (file picker, refresh, delete, drop) when no awaited
\* call fails; the only drag event is the drop that starts a handler.
SpecBatch == Init /\ [][NextBatch]_vars

\* Drops only: the drop handlers and the timeout their unhighlight starts.
NextDrops ==
  \/ \E r \in Rows, files \in Batches : Drop(r, files)
  \/ \E k \in 1..MaxInv : DropResume(k)
  \/ TimerFire

SpecDrops == Init /\ [][NextDrops]_vars

\* The file picker and the refresh button, any of whose awaited calls may fail.
NextFail ==
  \/ \E r \in Rows, files \in Selections : FileSelectorChange(r, files)
  \/ \E k \in 1..MaxInv : PickResume(k)
  \/ \E r \in Rows : ClickRefresh(r)
  \/ \E k \in 1..MaxInv : RefreshResume(k)
  \/ \E k \in 1..MaxInv : Reject(k)

SpecFail == Init /\ [][NextFail]_vars

\* The 'Add icon pack' click on a typed name, up to the name it normalizes
\* and asks doesIconPackExist about.
SpecNormalize == InitNormalize /\ [][ClickAddIconPack]_vars

\* All handlers, any of whose awaited calls may fail.
SpecHandlers == Init /\ [][NextHandlers]_vars

\* The whole component.
Spec == Init /\ [][Next]_vars

\* SpecDrag, with the host running the callback of a timeout that stays pending.
LiveDrag == SpecDrag /\ WF_vars(TimerFire)

-----------------------------------------------------------------------------
(* The drag highlight: properties *)

\* The rows that show the highlight: the overlay's parent and the rows with the class.
Holders == {r \in Rows : overlayParent = r \/ r \in dragoverClass}

Idle == dragTargetElement = None /\ overlayParent = None /\ dragoverClass = {}

\* C1: after any sequence of highlight, unhighlight and timer callbacks, at most
\* one row holds the overlay node and the 'iconize-dragover' class; two
\* highlights in a row on different rows leave exactly one holder.
C1_AtMostOneHolder ==
  /\ Cardinality(Holders) <= 1
  /\ (lastEvt.op = "highlight" /\ prevEvt.op = "highlight") => Cardinality(Holders) = 1

C1_Witness ==
  /\ lastEvt.op = "highlight"
  /\ prevEvt.op = "highlight"
  /\ lastEvt.row # prevEvt.row
  /\ Holders = {prevEvt.row}

\* C2: after highlight(rowB) while another row owns the overlay, that row no
\* longer holds the overlay and rowB is the highlighted row.
C2_HighlightTakesOver ==
  (lastEvt.op = "highlight" /\ lastEvt.owner \notin {None, lastEvt.row})
    => /\ dragTargetElement = lastEvt.row
       /\ overlayParent = lastEvt.row
       /\ lastEvt.owner \notin Holders

\* C3: highlight(row) right after unhighlight(row) cancels the timeout that
\* unhighlight started: the row is the owner and holds the overlay, the timeout
\* is no longer pending, and a timeout's callback only ever runs right after
\* the unhighlight that started it.
C3_DebounceCancels ==
  /\ (lastEvt.op = "highlight" /\ prevEvt.op = "unhighlight" /\ prevEvt.row = lastEvt.row)
       => /\ dragTargetElement = lastEvt.row
          /\ Holders = {lastEvt.row}
          /\ \A t \in timers : t.id # prevEvt.timer
  /\ lastEvt.op = "fire"
       => prevEvt.op = "unhighlight" /\ prevEvt.timer = lastEvt.timer

C3_Witness ==
  /\ lastEvt.op = "highlight"
  /\ prevEvt.op = "unhighlight"
  /\ prevEvt.row = lastEvt.row
  /\ prevEvt.owner = lastEvt.row
  /\ dragTargetElement = lastEvt.row

\* C4: an unhighlight releases at once an overlay another row owns, and unless
\* a highlight follows, the timeout fires and leaves the component idle.
C4_ReturnToIdle ==
  /\ [](lastEvt.op = "unhighlight" => dragTargetElement \in {None, lastEvt.row})
  /\ (lastEvt.op = "unhighlight") ~> (lastEvt.op = "highlight" \/ Idle)

C4_Witness ==
  /\ lastEvt.op = "fire"
  /\ lastEvt.owner # None
  /\ prevEvt.op = "unhighlight"
  /\ prevEvt.owner = prevEvt.row
  /\ Idle

-----------------------------------------------------------------------------
(* The handlers: properties *)

\* The names (first arguments) of the log's entries of one kind, in order.
Names(log, op) ==
  LET Is(e) == e.op = op
      sel == SelectSeq(log, Is)
  IN [i \in 1..Len(sel) |-> sel[i].name]

Notices(log, what) ==
  LET Is(e) == e.op = "Notice" /\ e.what = what
      sel == SelectSeq(log, Is)
  IN [i \in 1..Len(sel) |-> sel[i].name]

IsPrefix(s, t) == Len(s) <= Len(t) /\ SubSeq(t, 1, Len(s)) = s

FileNames(files) == [i \in 1..Len(files) |-> files[i].name]

\* Invocation k was started before this step and resumes in it without failing.
Resumes(k, pc) ==
  /\ k \in 1..Len(inv)
  /\ inv[k].pc = pc
  /\ inv'[k].pc \notin {pc, "failed"}

\* Invocation k is started by this step.
Starts(k) == k = Len(inv) + 1 /\ Len(inv') = k

\* An invocation that is done or failed never acts again.
Terminal(k) ==
  (k \in 1..Len(inv) /\ inv[k].pc \in {"done", "failed"}) => inv'[k] = inv[k]

\* C5: an 'Add icon pack' click with an empty input, or whose name
\* doesIconPackExist answers true for, creates no directory, shows no success
\* notice, leaves the input alone and asks for no redraw; the duplicate shows
\* the 'already exists' notice, the empty one nothing.
C5_RejectedCreate ==
  [][\A k \in 1..MaxInv :
       /\ Terminal(k)
       /\ (Starts(k) /\ inv'[k].kind = "create" /\ Len(textValue) = 0)
            => /\ inv'[k].pc = "done"
               /\ inv'[k].log = <<>>
               /\ textValue' = textValue
               /\ packDirs' = packDirs
       /\ (/\ Resumes(k, "doesIconPackExist")
           /\ normalizeIconPackName(inv[k].name) \in packDirs)
            => /\ inv'[k].pc = "done"
               /\ inv'[k].log =
                    << Call("doesIconPackExist", normalizeIconPackName(inv[k].name)),
                       NoticeEv("exists", <<>>, <<>>, 0) >>
               /\ textValue' = textValue
               /\ packDirs' = packDirs
  ]_vars

C5_Witness ==
  \E k \in 1..Len(inv) :
    /\ inv[k].kind = "create"
    /\ inv[k].pc = "done"
    /\ inv[k].name = <<"M", "y", " ", "P">>
    /\ Notices(inv[k].log, "exists") = << <<>> >>
    /\ textValue = <<"M", "y", " ", "P">>

\* C6: a create click that passes both checks calls
\* createCustomIconPackDirectory, and once that has completed it clears the
\* input, asks for one redraw and then shows one notice with the typed and the
\* normalized name; none of the three happens while the creation is pending.
C6_CreateEffects ==
  [][\A k \in 1..MaxInv :
       /\ (/\ Resumes(k, "doesIconPackExist")
           /\ normalizeIconPackName(inv[k].name) \notin packDirs)
            => /\ inv'[k].pc = "createCustomIconPackDirectory"
               /\ inv'[k].log =
                    << Call("doesIconPackExist", normalizeIconPackName(inv[k].name)),
                       Call("createCustomIconPackDirectory",
                            normalizeIconPackName(inv[k].name)) >>
               /\ textValue' = textValue
       /\ Resumes(k, "createCustomIconPackDirectory")
            => /\ inv'[k].pc = "done"
               /\ textValue' = <<>>
               /\ inv'[k].log = inv[k].log \o
                    << Call("setValue", <<>>),
                       Call("refreshDisplay", <<>>),
                       NoticeEv("created", inv[k].name,
                                normalizeIconPackName(inv[k].name), 0) >>
  ]_vars

C6_Witness ==
  \E k \in 1..Len(inv) :
    /\ inv[k].kind = "create"
    /\ inv[k].pc = "done"
    /\ Names(inv[k].log, "refreshDisplay") = << <<>> >>
    /\ inv[k].log[Len(inv[k].log)] =
         NoticeEv("created", <<"M", "y", " ", "P">>, <<"m", "y", "-", "p">>, 0)
    /\ textValue = <<>>

SvgNames(files) ==
  LET Svg(f) == f.type = "image/svg+xml" IN FileNames(SelectSeq(files, Svg))

OtherNames(files) ==
  LET Other(f) == f.type # "image/svg+xml" IN FileNames(SelectSeq(files, Other))

\* C7: a drop handler never hands a file of another type than 'image/svg+xml'
\* to createFile or addIconToIconPack, and one that completes has registered
\* one icon per file of that type, shown one 'not a SVG file' notice per other
\* file, and shown one success notice if and only if it accepted a file.
C7_DropBatch ==
  \A k \in 1..Len(inv) :
    inv[k].kind = "drop" =>
      LET c == inv[k] IN
      /\ IsPrefix(Names(c.log, "createFile"), SvgNames(c.files))
      /\ IsPrefix(Names(c.log, "addIconToIconPack"), SvgNames(c.files))
      /\ IsPrefix(Notices(c.log, "notSvg"), OtherNames(c.files))
      /\ c.pc = "done" =>
           /\ Names(c.log, "addIconToIconPack") = SvgNames(c.files)
           /\ Names(c.log, "createFile") = SvgNames(c.files)
           /\ Notices(c.log, "notSvg") = OtherNames(c.files)
           /\ Len(Notices(c.log, "success")) = IF Len(SvgNames(c.files)) > 0 THEN 1 ELSE 0

C7_Witness ==
  \E k \in 1..Len(inv) :
    /\ inv[k].kind = "drop"
    /\ inv[k].pc = "done"
    /\ inv[k].files = <<FileA, FileC, FileB>>
    /\ Names(inv[k].log, "addIconToIconPack") = <<FileA.name, FileB.name>>
    /\ Notices(inv[k].log, "notSvg") = <<FileC.name>>
    /\ Len(Notices(inv[k].log, "success")) = 1

\* The part of a path after its last '/', the whole path when it has none.
LastSegment(path) ==
  LET slashes == {i \in 1..Len(path) : path[i] = "/"}
      last == IF slashes = {} THEN 0
              ELSE CHOOSE i \in slashes : \A j \in slashes : j <= i
  IN SubSeq(path, last + 1, Len(path))

LastSegments(files) == [i \in 1..Len(files) |-> LastSegment(files[i])]

\* C8: a refresh click first sets the description to 'Loading icons...'; when
\* it completes it has registered, for every path of the listing and in its
\* order, one icon named by the path's last segment, has shown one notice and
\* sets the description to the number of paths listed.
C8_Refresh ==
  /\ [](\A k \in 1..Len(inv) :
          inv[k].kind = "refresh" =>
            LET c == inv[k] IN
            /\ c.log[1] = SetDescEv("loading", <<>>, 0)
            /\ c.pc # "done" => Notices(c.log, "refreshed") = <<>>
            /\ c.pc = "done" =>
                 /\ Names(c.log, "addIconToIconPack") = LastSegments(c.files)
                 /\ Notices(c.log, "refreshed") = << <<>> >>
                 /\ c.log[Len(c.log)] = SetDescEv("count", <<>>, Len(c.files)))
  /\ [][\A k \in 1..MaxInv :
          /\ (Starts(k) /\ inv'[k].kind = "refresh")
               => desc'[inv'[k].row] = LoadingDesc
          /\ (k \in 1..Len(inv) /\ inv[k].kind = "refresh"
                /\ inv[k].pc # "done" /\ inv'[k].pc = "done")
               => desc'[inv[k].row] = CountDesc(Len(inv'[k].files))
     ]_vars

C8_Witness ==
  \E k \in 1..Len(inv) :
    /\ inv[k].kind = "refresh"
    /\ inv[k].pc = "done"
    /\ inv[k].files = <<PathA, PathB>>
    /\ Names(inv[k].log, "addIconToIconPack") =
         << <<"a", ".", "s", "v", "g">>, <<"b", ".", "s", "v", "g">> >>
    /\ desc[inv[k].row] = CountDesc(2)

\* C9: a delete click asks for nothing while deleteIconPack is pending; once
\* it has completed, the backing storage is deleted and the handler has asked
\* for one redraw and shown one notice, whatever the pack holds.
C9_DeleteRedraws ==
  \A k \in 1..Len(inv) :
    inv[k].kind = "delete" =>
      /\ inv[k].pc = "deleteIconPack" => inv[k].log = <<Call("deleteIconPack", <<>>)>>
      /\ inv[k].pc = "done" =>
           /\ inv[k].row \in deletedPacks
           /\ inv[k].log = << Call("deleteIconPack", <<>>),
                              Call("refreshDisplay", <<>>),
                              NoticeEv("deleted", <<>>, <<>>, 0) >>

C9_Witness ==
  \E k \in 1..Len(inv) :
    /\ inv[k].kind = "delete"
    /\ inv[k].pc = "done"
    /\ Len(iconPacks[inv[k].row]) > 0
    /\ Names(inv[k].log, "refreshDisplay") = << <<>> >>

\* The icon names a batch registers when every file goes through, in order.
Registers(c) ==
  CASE c.kind = "pick" -> FileNames(c.files)
    [] c.kind = "drop" -> SvgNames(c.files)
    [] c.kind = "refresh" -> LastSegments(c.files)

IsRead(e) == e.op \in {"readFileSync", "read"}

\* Every read of the log starts when all files read before it are registered.
OneAtATime(log) ==
  \A m \in 1..Len(log) :
    IsRead(log[m]) =>
      Len(SelectSeq(SubSeq(log, 1, m), IsRead))
        = Len(Names(SubSeq(log, 1, m), "addIconToIconPack")) + 1

\* C10: a file picker, drop or refresh invocation works on one file at a time:
\* it starts on a file only when the files before it are registered, and its
\* addIconToIconPack calls follow the order of the accepted files.
C10_BatchOrder ==
  \A k \in 1..Len(inv) :
    inv[k].kind \in {"pick", "drop", "refresh"} =>
      /\ OneAtATime(inv[k].log)
      /\ IsPrefix(Names(inv[k].log, "addIconToIconPack"), Registers(inv[k]))
      /\ inv[k].pc = "done" => Names(inv[k].log, "addIconToIconPack") = Registers(inv[k])

C10_Witness ==
  \E k \in 1..Len(inv) :
    /\ inv[k].kind = "pick"
    /\ inv[k].pc = "done"
    /\ inv[k].files = <<FileB, FileA>>
    /\ Names(inv[k].log, "addIconToIconPack") = <<FileB.name, FileA.name>>

-----------------------------------------------------------------------------
(* Names: properties *)

UpperCase == {"M", "P", "A"}

\* The lower-case letter of each upper-case letter.
LowerOf == [c \in UpperCase |-> IF c = "M" THEN "m" ELSE IF c = "P" THEN "p" ELSE "a"]

\* n is s with every upper-case letter lowered, every whitespace character
\* replaced by a hyphen and every other character kept.
IsNormalizedFrom(n, s) ==
  /\ Len(n) = Len(s)
  /\ \A i \in 1..Len(s) :
       n[i] = IF s[i] \in UpperCase THEN LowerOf[s[i]]
              ELSE IF s[i] \in {" ", "\t", "\n"} THEN "-"
              ELSE s[i]

\* The name a create invocation asked doesIconPackExist about.
AskedName(c) == c.log[1].name

\* C11: the name the click normalizes is the typed name lower-cased with every
\* whitespace character replaced by a hyphen ('My Pack' gives 'my-pack'), and
\* normalizing it again leaves it as it is.
C11_NormalizeIdempotent ==
  \A k \in 1..Len(inv) :
    (inv[k].kind = "create" /\ Len(inv[k].name) > 0) =>
      /\ IsNormalizedFrom(AskedName(inv[k]), inv[k].name)
      /\ normalizeIconPackName(AskedName(inv[k])) = AskedName(inv[k])
      /\ inv[k].name = MyPack =>
           AskedName(inv[k]) = <<"m", "y", "-", "p", "a", "c", "k">>

C11_Witness ==
  \E k \in 1..Len(inv) :
    /\ inv[k].name = <<"M", " ", "\t">>
    /\ AskedName(inv[k]) = <<"m", "-", "-">>
    /\ normalizeIconPackName(AskedName(inv[k])) = <<"m", "-", "-">>

-----------------------------------------------------------------------------
(* Handlers: interleaving *)

\* C12: nothing makes the handlers wait for each other: while a handler is
\* suspended at an await, a drop on any row, the row of the suspended handler
\* included, can start, and every suspended handler can be the next to resume.
C12_NoMutualExclusion ==
  \A k \in 1..Len(inv) :
    Running(k) =>
      /\ CanStart => \A files \in Batches : ENABLED Drop(inv[k].row, files)
      /\ inv[k].kind = "drop" => ENABLED DropResume(k)

\* Two drop handlers of one row whose addIconToIconPack calls alternate.
C12_Witness ==
  \E r \in Rows, a, b \in 1..Len(inv) :
    /\ a # b
    /\ inv[a].kind = "drop" /\ inv[b].kind = "drop"
    /\ inv[a].row = r /\ inv[b].row = r
    /\ \E i, j, l \in 1..Len(iconPacks[r]) :
         /\ i < j /\ j < l
         /\ iconPacks[r][i].by = a
         /\ iconPacks[r][j].by = b
         /\ iconPacks[r][l].by = a

-----------------------------------------------------------------------------
(* Handlers: failures *)

\* C13: a file-picker invocation that has ended, one of its reads or writes
\* having failed or not, has read every file of the selection.
C13_LaterFilesProcessed ==
  \A k \in 1..Len(inv) :
    (inv[k].kind = "pick" /\ inv[k].pc \in {"done", "failed"}) =>
      Names(inv[k].log, "readFileSync") = FileNames(inv[k].files)

SetDescs(log) ==
  LET Is(e) == e.op = "setDesc" IN SelectSeq(log, Is)

\* The names invocation k registered in the pack of its row, in order.
RegisteredBy(k) ==
  LET Is(e) == e.by = k
      sel == SelectSeq(iconPacks[inv[k].row], Is)
  IN [i \in 1..Len(sel) |-> sel[i].name]

\* C14: a refresh invocation one of whose awaited calls failed has ended there:
\* the failing step changes no description and no pack, the invocation has
\* set the description to 'Loading icons...' and to nothing else and has shown
\* no 'refreshed' notice, so the description of a row no other handler works
\* on still reads 'Loading icons...'; the icons it registered are still registered.
C14_RefreshFailure ==
  /\ [](\A k \in 1..Len(inv) :
          (inv[k].kind = "refresh" /\ inv[k].pc = "failed") =>
            /\ Notices(inv[k].log, "refreshed") = <<>>
            /\ SetDescs(inv[k].log) = <<SetDescEv("loading", <<>>, 0)>>
            /\ (\A j \in 1..Len(inv) : j # k => inv[j].row # inv[k].row) =>
                 desc[inv[k].row] = LoadingDesc
            /\ RegisteredBy(k) = Names(inv[k].log, "addIconToIconPack"))
  /\ [][\A k \in 1..MaxInv :
          /\ Terminal(k)
          /\ (k \in 1..Len(inv) /\ inv[k].pc # "failed" /\ inv'[k].pc = "failed") =>
               (desc' = desc /\ iconPacks' = iconPacks)]_vars

C14_Witness ==
  \E k \in 1..Len(inv) :
    /\ inv[k].kind = "refresh" /\ inv[k].pc = "failed"
    /\ Names(inv[k].log, "addIconToIconPack") = << <<"a", ".", "s", "v", "g">> >>
    /\ Len(iconPacks[inv[k].row]) = 1
    /\ desc[inv[k].row] = LoadingDesc

-----------------------------------------------------------------------------
(* The drag highlight: timers and ownership *)

\* C15: at most one release timeout is pending and closeTimer holds its
\* handle; after a highlight none is pending, after an unhighlight only the one
\* it started is, and a callback runs only for the timeout of the unhighlight
\* right before it, never for one an earlier unhighlight started.
C15_SingleTimer ==
  /\ Cardinality(timers) <= 1
  /\ \A t \in timers : t.id = closeTimer
  /\ lastEvt.op = "highlight" => timers = {}
  /\ lastEvt.op = "unhighlight" =>
       timers = {[id |-> lastEvt.timer, el |-> lastEvt.row]}
  /\ lastEvt.op = "fire" =>
       /\ timers = {}
       /\ prevEvt.op = "unhighlight"
       /\ prevEvt.timer = lastEvt.timer
       /\ prevEvt.row = lastEvt.row

\* A second unhighlight has replaced the timeout of the one before it.
C15_Witness ==
  /\ lastEvt.op = "unhighlight"
  /\ prevEvt.op = "unhighlight"
  /\ prevEvt.timer # lastEvt.timer
  /\ prevEvt.row # lastEvt.row
  /\ timers = {[id |-> lastEvt.timer, el |-> lastEvt.row]}

\* C16: dragTargetElement is a row exactly when the overlay is a child of that
\* row and that row alone carries 'iconize-dragover'; a pending timeout was
\* started for the owning row whenever there is an owner, so its callback
\* removes the overlay from its parent, and removeChild has never thrown.
C16_OwnershipConsistent ==
  /\ overlayParent = dragTargetElement
  /\ dragoverClass = IF dragTargetElement = None THEN {} ELSE {dragTargetElement}
  /\ \A t \in timers : dragTargetElement \in {None, t.el}
  /\ lastEvt.op = "fire" => lastEvt.owner \in {None, lastEvt.row}
  /\ ~thrown

\* A callback found its own row owning the overlay and released it.
C16_Witness ==
  /\ lastEvt.op = "fire"
  /\ lastEvt.owner = lastEvt.row
  /\ lastEvt.row \in Rows
  /\ overlayParent = None
  /\ dragoverClass = {}
  /\ ~thrown

-----------------------------------------------------------------------------
(* Handlers: order of persisting and registering *)

\* C17: the file picker and the drop handler register a file only when the
\* createFile for that file has completed: the files registered are the files
\* createFile was called for, in order, less the one whose createFile is still
\* awaited; the refresh handler registers without ever calling createFile.
C17_PersistBeforeRegister ==
  \A k \in 1..Len(inv) :
    LET created == Names(inv[k].log, "createFile")
        added == Names(inv[k].log, "addIconToIconPack")
    IN /\ RegisteredBy(k) = added
       /\ inv[k].kind \in {"pick", "drop"} =>
            /\ IsPrefix(added, created)
            /\ Len(created) = Len(added) + (IF inv[k].pc = "createFile" THEN 1 ELSE 0)
       /\ inv[k].kind = "refresh" => created = <<>>

C17_Witness ==
  \E k, j \in 1..Len(inv) :
    /\ inv[k].kind = "drop" /\ inv[k].pc = "createFile"
    /\ Names(inv[k].log, "createFile") = << FileA.name, FileB.name >>
    /\ RegisteredBy(k) = << FileA.name >>
    /\ inv[j].kind = "refresh" /\ inv[j].pc = "done"
    /\ Len(RegisteredBy(j)) = 2

-----------------------------------------------------------------------------
(* Creating, deleting: interleavings *)

CreatedNames(k) == Names(inv[k].log, "createCustomIconPackDirectory")

\* C18: createCustomIconPackDirectory is issued at most once per normalized
\* name: no two 'Add icon pack' clicks both reach the creation of one name.
C18_CreateOncePerName ==
  \A k, j \in 1..Len(inv) :
    k # j =>
      \A a \in 1..Len(CreatedNames(k)), b \in 1..Len(CreatedNames(j)) :
        CreatedNames(k)[a] # CreatedNames(j)[b]

\* Invocation k calls neither createFile nor addIconToIconPack in this step.
NoWrite(k) ==
  /\ Names(inv'[k].log, "createFile") = Names(inv[k].log, "createFile")
  /\ Names(inv'[k].log, "addIconToIconPack") = Names(inv[k].log, "addIconToIconPack")

\* C19: once a delete click on a row has issued deleteIconPack, no handler
\* started on that row before the click calls createFile or addIconToIconPack.
C19_NoWritesAfterDelete ==
  [][\A k, d \in 1..MaxInv :
       (/\ k < d
        /\ d \in 1..Len(inv)
        /\ inv[d].kind = "delete"
        /\ inv[d].row = inv[k].row) => NoWrite(k)]_vars

IsCanonical(n, typed) ==
  /\ Len(n) > 0
  /\ Len(n) = Len(typed)
  /\ \A i \in 1..Len(n) : n[i] \notin UpperCase \cup {" ", "\t", "\n"}

\* C20: every name passed to doesIconPackExist or to
\* createCustomIconPackDirectory is non-empty, as long as the typed name and
\* free of whitespace and upper-case letters; a name of one blank is not
\* rejected as empty: it is looked up, and created, as one hyphen.
C20_CanonicalNames ==
  \A k \in 1..Len(inv) :
    inv[k].kind = "create" =>
      /\ \A m \in 1..Len(inv[k].log) :
           inv[k].log[m].op \in {"doesIconPackExist", "createCustomIconPackDirectory"} =>
             IsCanonical(inv[k].log[m].name, inv[k].name)
      /\ inv[k].name = <<" ">> =>
           /\ Names(inv[k].log, "doesIconPackExist") = << <<"-">> >>
           /\ IsPrefix(CreatedNames(k), << <<"-">> >>)
           /\ (inv[k].pc = "done" /\ Notices(inv[k].log, "exists") = <<>>) =>
                (CreatedNames(k) = << <<"-">> >> /\ <<"-">> \in packDirs)

C20_Witness ==
  \E k, j \in 1..Len(inv) :
    /\ inv[k].name = <<" ">> /\ inv[k].pc = "done"
    /\ CreatedNames(k) = << <<"-">> >>
    /\ <<"-">> \in packDirs
    /\ inv[j].name = <<"M", "y", " ", "P">>
    /\ CreatedNames(j) = << <<"m", "y", "-", "p">> >>

=============================================================================
